---- MODULE Spec2Model ----
(***************************************************************************)
(* Model of the image thumbnail pipeline of projeto_thumbnails             *)
(* (image_resizer.py): resize_image and lambda_handler over an S3-like     *)
(* object store; and of the task handler of projeto_crud_serverless        *)
(* (task_crud_handler.py) over its table.                                  *)
(*                                                                         *)
(* Text (object keys, profile names) is a sequence of one-character        *)
(* strings.  Python floats are IEEE-754 doubles: a positive double is the  *)
(* record [mant, exp] with mant a 53-bit sequence (most significant bit    *)
(* first, leading bit 1) and value mant * 2^exp.                           *)
(***************************************************************************)
EXTENDS Integers, Sequences, FiniteSets, TLC

(***************************************************************************)
(* Bounds of the model.                                                    *)
(***************************************************************************)
MaxRecords == 2
MaxRuns == 2
MaxOrigWidth == 50
MaxOrigHeight == 50
MaxMaxWidth == 3
MaxRequests == 2
MaxClock == 2
MaxWorkers == 2

(***************************************************************************)
(* IEEE-754 double arithmetic, as used by lines 24-25 of resize_image.     *)
(***************************************************************************)
MantBits == 53

RECURSIVE Pow2(_)
Pow2(n) == IF n = 0 THEN 1 ELSE 2 * Pow2(n - 1)

RECURSIVE IntToBits(_)
IntToBits(n) == IF n = 0 THEN <<>> ELSE IntToBits(n \div 2) \o <<n % 2>>

\* The int written by the first n bits of s.
RECURSIVE BitsToInt(_, _)
BitsToInt(s, n) == IF n = 0 THEN 0 ELSE 2 * BitsToInt(s, n - 1) + s[n]

\* s + 1: the trailing run of ones becomes zeros and the zero before it a
\* one; a sequence of ones alone grows by one bit.
IncBits(s) ==
    LET zeros == {k \in 1..Len(s) : s[k] = 0}
        last  == IF zeros = {} THEN 0
                 ELSE CHOOSE k \in zeros : \A j \in zeros : j <= k
    IN  IF last = 0 THEN <<1>> \o [k \in 1..Len(s) |-> 0]
        ELSE [k \in 1..Len(s) |->
                 IF k < last THEN s[k] ELSE IF k = last THEN 1 ELSE 0]

\* Round to nearest, ties to even: mant holds the 53 kept bits, round the
\* first dropped bit, sticky whether any later dropped bit is set.
RoundNearestEven(mant, round, sticky, exp) ==
    IF round = 1 /\ (sticky \/ mant[MantBits] = 1)
    THEN LET up == IncBits(mant)
         IN  IF Len(up) > MantBits
             THEN [mant |-> SubSeq(up, 1, MantBits), exp |-> exp + 1]
             ELSE [mant |-> up, exp |-> exp]
    ELSE [mant |-> mant, exp |-> exp]

\* Binary expansion of r / w for 0 <= r < w.
RECURSIVE LeadingZeros(_, _)
LeadingZeros(r, w) == IF 2 * r >= w THEN 0 ELSE 1 + LeadingZeros(2 * r, w)

RECURSIVE TakeBits(_, _, _)
TakeBits(r, w, n) ==
    IF n = 0 THEN <<>>
    ELSE IF 2 * r >= w THEN <<1>> \o TakeBits(2 * r - w, w, n - 1)
    ELSE <<0>> \o TakeBits(2 * r, w, n - 1)

RECURSIVE RemAfter(_, _, _)
RemAfter(r, w, n) ==
    IF n = 0 THEN r
    ELSE IF 2 * r >= w THEN RemAfter(2 * r - w, w, n - 1)
    ELSE RemAfter(2 * r, w, n - 1)

\* m / w of two ints with 0 < m < w: the correctly rounded double.
FloatDiv(m, w) ==
    LET z    == LeadingZeros(m, w)
        r0   == m * Pow2(z)
        bits == TakeBits(r0, w, MantBits + 1)
        rem  == RemAfter(r0, w, MantBits + 1)
    IN  RoundNearestEven(SubSeq(bits, 1, MantBits), bits[MantBits + 1],
                         rem # 0, 0 - (z + MantBits))

\* Exact product of a bit sequence and a small int, as a bit sequence.
\* MulBits(s, n, h, carry) is s[1..n] * h + carry.
RECURSIVE MulBits(_, _, _, _)
MulBits(s, n, h, carry) ==
    IF carry < 0 \/ n = 0 THEN IntToBits(carry)   \* carry is never negative
    ELSE MulBits(s, n - 1, h, (s[n] * h + carry) \div 2)
             \o <<(s[n] * h + carry) % 2>>

\* h * f for an int h > 0 and a double f: the correctly rounded double.
FloatMulInt(h, f) ==
    LET prod == MulBits(f.mant, MantBits, h, 0)
        d    == Len(prod) - MantBits
    IN  IF d = 0 THEN [mant |-> prod, exp |-> f.exp]
        ELSE RoundNearestEven(SubSeq(prod, 1, MantBits), prod[MantBits + 1],
                              \E k \in (MantBits + 2)..Len(prod) : prod[k] = 1,
                              f.exp + d)

\* int(f): truncation toward zero of a positive double.
FloatToInt(f) ==
    LET nint == MantBits + f.exp
    IN  IF nint <= 0 THEN 0
        ELSE IF f.exp >= 0 THEN BitsToInt(f.mant, MantBits) * Pow2(f.exp)
        ELSE BitsToInt(f.mant, nint)

(***************************************************************************)
(* resize_image (image_resizer.py 17-28).  An image is its size            *)
(* [width, height].  The result carries ok = FALSE when Image.resize       *)
(* rejects the requested size (Pillow raises ValueError for a side < 1).   *)
(***************************************************************************)
new_height(image, max_width) ==
    FloatToInt(FloatMulInt(image.height, FloatDiv(max_width, image.width)))

\* resize_image without the guard of line 20: a narrower image is scaled up.
resize_image_noguard(image, max_width) ==
    IF image.width > max_width
    THEN LET nh == new_height(image, max_width)
         IN  [ok |-> nh >= 1, width |-> max_width, height |-> nh]
    ELSE [ok |-> TRUE, width |-> max_width,
          height |-> (image.height * max_width) \div image.width]

resize_image(image, max_width) ==
    IF image.width <= max_width
    THEN [ok |-> TRUE, width |-> image.width, height |-> image.height]
    ELSE LET nh == new_height(image, max_width)
         IN  [ok |-> nh >= 1, width |-> max_width, height |-> nh]

(***************************************************************************)
(* Text helpers: urllib.parse.unquote_plus, str.startswith,                *)
(* os.path.basename (posix).                                               *)
(***************************************************************************)
HexUpper == <<"0", "1", "2", "3", "4", "5", "6", "7", "8", "9",
              "A", "B", "C", "D", "E", "F">>
HexLower == <<"0", "1", "2", "3", "4", "5", "6", "7", "8", "9",
              "a", "b", "c", "d", "e", "f">>

IsHex(c) == \E v \in 1..16 : HexUpper[v] = c \/ HexLower[v] = c

HexVal(c) == (CHOOSE v \in 1..16 : HexUpper[v] = c \/ HexLower[v] = c) - 1

\* Printable ASCII, code 32 (space) to 126 (~); code 96 is written <grave>.
Printable ==
    <<" ", "!", "\"", "#", "$", "%", "&", "'", "(", ")", "*", "+", ",", "-",
      ".", "/", "0", "1", "2", "3", "4", "5", "6", "7", "8", "9", ":", ";",
      "<", "=", ">", "?", "@", "A", "B", "C", "D", "E", "F", "G", "H", "I",
      "J", "K", "L", "M", "N", "O", "P", "Q", "R", "S", "T", "U", "V", "W",
      "X", "Y", "Z", "[", "\\", "]", "^", "_", "<grave>", "a", "b", "c", "d", "e",
      "f", "g", "h", "i", "j", "k", "l", "m", "n", "o", "p", "q", "r", "s",
      "t", "u", "v", "w", "x", "y", "z", "{", "|", "}", "~">>

\* The character of a decoded byte; bytes outside printable ASCII are not
\* used by the keys of this model and map to one placeholder.
Chr(code) == IF code \in 32..126 THEN Printable[code - 31] ELSE "<byte>"

\* unquote_from(s, k) decodes s from position k on: %XX with two hex
\* digits is one byte, any other character stands for itself.
RECURSIVE unquote_from(_, _)
unquote_from(s, k) ==
    IF k > Len(s) THEN <<>>
    ELSE IF s[k] = "%" /\ k + 2 <= Len(s) /\ IsHex(s[k + 1]) /\ IsHex(s[k + 2])
    THEN <<Chr(16 * HexVal(s[k + 1]) + HexVal(s[k + 2]))>>
             \o unquote_from(s, k + 3)
    ELSE <<s[k]>> \o unquote_from(s, k + 1)

unquote(s) == unquote_from(s, 1)

unquote_plus(s) ==
    unquote([k \in 1..Len(s) |-> IF s[k] = "+" THEN " " ELSE s[k]])

startswith(s, prefix) ==
    Len(s) >= Len(prefix) /\ SubSeq(s, 1, Len(prefix)) = prefix

\* basename that drops the first path segment only.
basename_first(path) ==
    LET slashes == {k \in 1..Len(path) : path[k] = "/"}
        first   == IF slashes = {} THEN 0
                   ELSE CHOOSE k \in slashes : \A j \in slashes : k <= j
    IN  SubSeq(path, first + 1, Len(path))

basename(path) ==
    LET slashes == {k \in 1..Len(path) : path[k] = "/"}
        last    == IF slashes = {} THEN 0
                   ELSE CHOOSE k \in slashes : \A j \in slashes : j <= k
    IN  SubSeq(path, last + 1, Len(path))

(***************************************************************************)
(* Configuration (image_resizer.py 12-15, 46).  SIZES is a dict; its       *)
(* iteration order is its insertion order.                                 *)
(***************************************************************************)
small == <<"s", "m", "a", "l", "l">>
medium == <<"m", "e", "d", "i", "u", "m">>

SIZES == <<[size_name |-> small, max_width |-> 300],
           [size_name |-> medium, max_width |-> 800]>>

OriginalPrefix == <<"o", "r", "i", "g", "i", "n", "a", "l", "/">>

\* The filter of line 46 left out: every record is processed.
is_eligible_any(object_key) == TRUE

is_eligible(object_key) == startswith(object_key, OriginalPrefix)

\* The variant written next to its source, under original/.
destination_key_insource(size_name, file_name) ==
    OriginalPrefix \o size_name \o <<"_">> \o file_name

destination_key(size_name, file_name) == size_name \o <<"/">> \o file_name

(***************************************************************************)
(* The objects and notifications the model draws from.                     *)
(***************************************************************************)
PhotoJpg == <<"p", "h", "o", "t", "o", ".", "j", "p", "g">>
TinyJpg == <<"t", "i", "n", "y", ".", "j", "p", "g">>
FooJpg == <<"f", "o", "o", ".", "j", "p", "g">>
BadJpg == <<"b", "a", "d", ".", "j", "p", "g">>
LineJpg == <<"l", "i", "n", "e", ".", "j", "p", "g">>
SubDir == <<"s", "u", "b", "/">>
ThumbnailsDir == <<"t", "h", "u", "m", "b", "n", "a", "i", "l", "s", "/">>

Img(w, h) == [kind |-> "image", width |-> w, height |-> h]
Corrupt == [kind |-> "corrupt", width |-> 0, height |-> 0]

Loc(bucket, key) == [bucket |-> bucket, key |-> key]

\* Objects in storage before the first invocation.
InitialStorage ==
    LET objs ==
        { <<Loc("photos", OriginalPrefix \o PhotoJpg), Img(2000, 1000)>>,
          <<Loc("photos", OriginalPrefix \o TinyJpg), Img(100, 50)>>,
          <<Loc("photos", OriginalPrefix \o SubDir \o PhotoJpg), Img(1200, 900)>>,
          <<Loc("photos", OriginalPrefix \o <<"m", "y", " ">> \o TinyJpg), Img(440, 22)>>,
          <<Loc("photos", OriginalPrefix \o BadJpg), Corrupt>>,
          <<Loc("photos", OriginalPrefix \o LineJpg), Img(700, 1)>>,
          <<Loc("photos", ThumbnailsDir \o FooJpg), Img(640, 480)>>,
          <<Loc("photos", small \o <<"/">> \o PhotoJpg), Img(1000, 500)>>,
          <<Loc("backup", OriginalPrefix \o PhotoJpg), Img(640, 480)>> }
    IN  [l \in {o[1] : o \in objs} |-> (CHOOSE o \in objs : o[1] = l)[2]]

\* Notifications (bucket and percent-encoded key) a batch may hold.
RecordPool ==
    { Loc("photos", OriginalPrefix \o PhotoJpg),
      Loc("photos", <<"o", "r", "i", "g", "i", "n", "a", "l", "%", "2", "F">> \o TinyJpg),
      Loc("photos", OriginalPrefix \o SubDir \o PhotoJpg),
      Loc("photos", OriginalPrefix \o <<"m", "y", "+">> \o TinyJpg),
      Loc("photos", OriginalPrefix \o BadJpg),
      Loc("photos", OriginalPrefix \o LineJpg),
      Loc("photos", ThumbnailsDir \o FooJpg),
      Loc("photos", small \o <<"/">> \o PhotoJpg),
      Loc("backup", OriginalPrefix \o PhotoJpg) }

Batches == UNION {[1..n -> RecordPool] : n \in 0..MaxRecords}

(***************************************************************************)
(* State.                                                                  *)
(***************************************************************************)
VARIABLES
    event,          \* event['Records']: sequence of [bucket, key]
    storage,        \* the object store: location -> object
    pc,             \* position of lambda_handler
    i,              \* index of the current record (for record in ...)
    p,              \* index of the current entry of SIZES
    original_image, \* size of the decoded source image
    resized_image,  \* size of the variant about to be stored
    file_name,      \* basename of the decoded key
    gets,           \* get_object calls of this invocation
    puts,           \* put_object calls of this invocation
    response,       \* the returned response
    run,            \* number of the invocation (delivery of the batch)
    prev,           \* outcome and storage at the end of the previous run
    error,          \* the exception re-raised at line 97: record and step
    arg_image,      \* resize_image alone: the image argument
    arg_max_width,  \* resize_image alone: the max_width argument
    result,         \* resize_image alone: the returned image
    table,          \* the tasks table: sort key created_at -> item
    clock,          \* datetime.now() of the task handlers
    issued,         \* how many uuid4 values have been generated
    requests,       \* how many HTTP requests have been received
    inv,            \* per concurrent invocation of the task handler: its
                    \* request, position, locals and response
    deleted         \* the uuids for which delete_task has returned 200

vars == <<event, storage, pc, i, p, original_image, resized_image, file_name,
          gets, puts, response, run, prev, error, arg_image, arg_max_width,
          result, table, clock, issued, requests, inv, deleted>>

resizeVars == <<arg_image, arg_max_width, result>>

thumbVars == <<event, storage, pc, i, p, original_image, resized_image,
               file_name, gets, puts, response, run, prev, error>>

crudVars == <<table, clock, issued, requests, inv, deleted>>

NoImage == [width |-> 0, height |-> 0]
NoResult == [ok |-> FALSE, width |-> 0, height |-> 0]
NoResponse == [statusCode |-> 0, processed_files |-> 0]
NoPrev == [pc |-> "none", storage |-> <<>>]
NoError == [i |-> 0, step |-> "none"]

Workers == 1..MaxWorkers

\* A task item; NoItem stands for None.
NoItem == [user_id |-> "", created_at |-> 0, uuid |-> 0,
           description |-> <<>>, done |-> FALSE]

\* A request body.  valid: json.loads accepts it; description and done are
\* the values of the keys when present; a description that is not a str
\* (a number, null) has description_is_str = FALSE.
NoBody == [valid |-> FALSE, has_description |-> FALSE,
           description_is_str |-> FALSE, description |-> <<>>,
           has_done |-> FALSE, done |-> FALSE]

Idle == [pc |-> "idle", method |-> "", task_id |-> 0, body |-> NoBody,
         found |-> NoItem, current_item |-> NoItem, statusCode |-> 0,
         error |-> ""]

\* The task a POST with the description "a" at time 0 has left.
FirstTask == [user_id |-> "user001", created_at |-> 0, uuid |-> 1,
              description |-> <<"a">>, done |-> FALSE]

\* No task request is under way; the table holds one task created before.
CrudAtRest ==
    /\ table = [k \in {0} |-> FirstTask]
    /\ clock = 1
    /\ issued = 1
    /\ requests = 0
    /\ inv = [w \in Workers |-> Idle]
    /\ deleted = {}

bucket_name == event[i].bucket
object_key == unquote_plus(event[i].key)

Init ==
    /\ event \in Batches
    /\ storage = InitialStorage
    /\ pc = "loop"
    /\ i = 1
    /\ p = 1
    /\ original_image = NoImage
    /\ resized_image = NoImage
    /\ file_name = <<>>
    /\ gets = <<>>
    /\ puts = <<>>
    /\ response = NoResponse
    /\ run = 1
    /\ prev = NoPrev
    /\ error = NoError
    /\ arg_image = NoImage
    /\ arg_max_width = 0
    /\ result = NoResult
    /\ CrudAtRest

(***************************************************************************)
(* lambda_handler (image_resizer.py 30-105), one action per step.          *)
(***************************************************************************)
\* 34-48: a record whose decoded key is not under original/ is skipped.
SkipRecord ==
    /\ pc = "loop"
    /\ i <= Len(event)
    /\ ~is_eligible(object_key)
    /\ i' = i + 1
    /\ UNCHANGED <<event, storage, pc, p, original_image, resized_image,
                   file_name, gets, puts, response, run, prev, error>>
    /\ UNCHANGED resizeVars
    /\ UNCHANGED crudVars

\* 34-50: an eligible record enters the try block.
BeginRecord ==
    /\ pc = "loop"
    /\ i <= Len(event)
    /\ is_eligible(object_key)
    /\ pc' = "get"
    /\ UNCHANGED <<event, storage, i, p, original_image, resized_image,
                   file_name, gets, puts, response, run, prev, error>>
    /\ UNCHANGED resizeVars
    /\ UNCHANGED crudVars

\* 53-54: get_object succeeds and the body is read.
GetObjectOk ==
    /\ pc = "get"
    /\ Loc(bucket_name, object_key) \in DOMAIN storage
    /\ gets' = Append(gets, [i |-> i, bucket |-> bucket_name,
                             key |-> object_key, ok |-> TRUE])
    /\ pc' = "open"
    /\ UNCHANGED <<event, storage, i, p, original_image, resized_image,
                   file_name, puts, response, run, prev, error>>
    /\ UNCHANGED resizeVars
    /\ UNCHANGED crudVars

\* GetObjectFail with the exception logged and not re-raised: the loop
\* goes on with the next record.
GetObjectFail_continue ==
    /\ pc = "get"
    /\ gets' = Append(gets, [i |-> i, bucket |-> bucket_name,
                             key |-> object_key, ok |-> FALSE])
    /\ pc' = "loop"
    /\ i' = i + 1
    /\ UNCHANGED <<event, storage, p, original_image, resized_image,
                   file_name, puts, response, run, prev, error>>
    /\ UNCHANGED resizeVars
    /\ UNCHANGED crudVars

\* GetObjectFail with one retry: the first failed get of a record is
\* issued again.
GetObjectFail_retry ==
    /\ pc = "get"
    /\ gets' = Append(gets, [i |-> i, bucket |-> bucket_name,
                             key |-> object_key, ok |-> FALSE])
    /\ IF \E g \in 1..Len(gets) : gets[g].i = i
       THEN pc' = "raised" /\ error' = [i |-> i, step |-> "get"]
       ELSE pc' = "get" /\ error' = error
    /\ UNCHANGED <<event, storage, i, p, original_image, resized_image,
                   file_name, puts, response, run, prev>>
    /\ UNCHANGED resizeVars
    /\ UNCHANGED crudVars

\* 53-54, 95-97: get_object fails (no such key, or an I/O error); re-raised.
GetObjectFail ==
    /\ pc = "get"
    /\ gets' = Append(gets, [i |-> i, bucket |-> bucket_name,
                             key |-> object_key, ok |-> FALSE])
    /\ pc' = "raised"
    /\ error' = [i |-> i, step |-> "get"]
    /\ UNCHANGED <<event, storage, i, p, original_image, resized_image,
                   file_name, puts, response, run, prev>>
    /\ UNCHANGED resizeVars
    /\ UNCHANGED crudVars

\* 57-65: Image.open, conversion to RGB, basename of the key.
OpenImage ==
    /\ pc = "open"
    /\ storage[Loc(bucket_name, object_key)].kind = "image"
    /\ original_image' = [width  |-> storage[Loc(bucket_name, object_key)].width,
                          height |-> storage[Loc(bucket_name, object_key)].height]
    /\ file_name' = basename(object_key)
    /\ p' = 1
    /\ pc' = "resize"
    /\ UNCHANGED <<event, storage, i, resized_image, gets, puts, response,
                   run, prev, error>>
    /\ UNCHANGED resizeVars
    /\ UNCHANGED crudVars

\* 57, 95-97: Image.open rejects the bytes; re-raised.
OpenImageFail ==
    /\ pc = "open"
    /\ storage[Loc(bucket_name, object_key)].kind # "image"
    /\ pc' = "raised"
    /\ error' = [i |-> i, step |-> "open"]
    /\ UNCHANGED <<event, storage, i, p, original_image, resized_image,
                   file_name, gets, puts, response, run, prev>>
    /\ UNCHANGED resizeVars
    /\ UNCHANGED crudVars

\* ResizeAndSave without the copy of line 72: the source itself is resized.
ResizeAndSave_inplace ==
    /\ pc = "resize"
    /\ p <= Len(SIZES)
    /\ LET r == resize_image(original_image, SIZES[p].max_width)
       IN  /\ r.ok
           /\ resized_image' = [width |-> r.width, height |-> r.height]
           /\ original_image' = [width |-> r.width, height |-> r.height]
    /\ pc' = "put"
    /\ UNCHANGED <<event, storage, i, p, file_name, gets, puts, response,
                   run, prev, error>>
    /\ UNCHANGED resizeVars
    /\ UNCHANGED crudVars

\* 68-78: the next profile: resize a copy and encode it as JPEG.
ResizeAndSave ==
    /\ pc = "resize"
    /\ p <= Len(SIZES)
    /\ LET r == resize_image(original_image, SIZES[p].max_width)
       IN  /\ r.ok
           /\ resized_image' = [width |-> r.width, height |-> r.height]
    /\ pc' = "put"
    /\ UNCHANGED <<event, storage, i, p, original_image, file_name, gets,
                   puts, response, run, prev, error>>
    /\ UNCHANGED resizeVars
    /\ UNCHANGED crudVars

\* 72, 95-97: the resize is rejected (a side below 1); re-raised.
ResizeFail ==
    /\ pc = "resize"
    /\ p <= Len(SIZES)
    /\ ~resize_image(original_image, SIZES[p].max_width).ok
    /\ pc' = "raised"
    /\ error' = [i |-> i, step |-> "resize"]
    /\ UNCHANGED <<event, storage, i, p, original_image, resized_image,
                   file_name, gets, puts, response, run, prev>>
    /\ UNCHANGED resizeVars
    /\ UNCHANGED crudVars

PutEntry(ok) ==
    [i |-> i, size_name |-> SIZES[p].size_name, bucket |-> bucket_name,
     key |-> destination_key(SIZES[p].size_name, file_name),
     width |-> resized_image.width, height |-> resized_image.height,
     src_width |-> original_image.width,
     src_height |-> original_image.height, ok |-> ok]

\* 81-91: put_object stores the variant at its destination key.
PutObjectOk ==
    /\ pc = "put"
    /\ LET dest == Loc(bucket_name,
                       destination_key(SIZES[p].size_name, file_name))
       IN  storage' = [l \in DOMAIN storage \cup {dest} |->
                          IF l = dest
                          THEN Img(resized_image.width, resized_image.height)
                          ELSE storage[l]]
    /\ puts' = Append(puts, PutEntry(TRUE))
    /\ p' = p + 1
    /\ pc' = "resize"
    /\ UNCHANGED <<event, i, original_image, resized_image, file_name, gets,
                   response, run, prev, error>>
    /\ UNCHANGED resizeVars
    /\ UNCHANGED crudVars

\* PutObjectFail with the exception swallowed: the loop goes on with the
\* next profile.
PutObjectFail_swallow ==
    /\ pc = "put"
    /\ puts' = Append(puts, PutEntry(FALSE))
    /\ p' = p + 1
    /\ pc' = "resize"
    /\ UNCHANGED <<event, storage, i, original_image, resized_image,
                   file_name, gets, response, run, prev, error>>
    /\ UNCHANGED resizeVars
    /\ UNCHANGED crudVars

\* 84-89, 95-97: put_object fails; re-raised.
PutObjectFail ==
    /\ pc = "put"
    /\ puts' = Append(puts, PutEntry(FALSE))
    /\ pc' = "raised"
    /\ error' = [i |-> i, step |-> "put"]
    /\ UNCHANGED <<event, storage, i, p, original_image, resized_image,
                   file_name, gets, response, run, prev>>
    /\ UNCHANGED resizeVars
    /\ UNCHANGED crudVars

\* 68, 93: all profiles are stored; on to the next record.
EndRecord ==
    /\ pc = "resize"
    /\ p > Len(SIZES)
    /\ i' = i + 1
    /\ pc' = "loop"
    /\ UNCHANGED <<event, storage, p, original_image, resized_image,
                   file_name, gets, puts, response, run, prev, error>>
    /\ UNCHANGED resizeVars
    /\ UNCHANGED crudVars

\* 68-97 for one record: the profiles are rendered and put in the given
\* order, each from a copy of the same image; a rejected resize raises and
\* ends the loop with the variants written so far.  The first n profiles
\* of the order give the written variants and whether the loop is still on.
RECURSIVE render_profiles(_, _, _, _)
render_profiles(image, name, order, n) ==
    IF n = 0 THEN [ok |-> TRUE, written |-> {}]
    ELSE LET before == render_profiles(image, name, order, n - 1)
             size   == SIZES[order[n]]
             r      == resize_image(image, size.max_width)
             dest   == destination_key(size.size_name, name)
         IN  IF ~before.ok THEN before
             ELSE IF ~r.ok THEN [ok |-> FALSE, written |-> before.written]
             ELSE [ok |-> TRUE,
                   written |-> {v \in before.written : v.key # dest}
                                  \cup {[key |-> dest, width |-> r.width,
                                         height |-> r.height]}]

\* Return counting only the records that were not skipped.
Return_count_eligible ==
    /\ pc = "loop"
    /\ i > Len(event)
    /\ response' = [statusCode |-> 200,
                    processed_files |->
                        Cardinality({k \in 1..Len(event) :
                            is_eligible(unquote_plus(event[k].key))})]
    /\ pc' = "returned"
    /\ UNCHANGED <<event, storage, i, p, original_image, resized_image,
                   file_name, gets, puts, run, prev, error>>
    /\ UNCHANGED resizeVars
    /\ UNCHANGED crudVars

\* 99-105: the loop is over; the response is returned.
Return ==
    /\ pc = "loop"
    /\ i > Len(event)
    /\ response' = [statusCode |-> 200, processed_files |-> Len(event)]
    /\ pc' = "returned"
    /\ UNCHANGED <<event, storage, i, p, original_image, resized_image,
                   file_name, gets, puts, run, prev, error>>
    /\ UNCHANGED resizeVars
    /\ UNCHANGED crudVars

\* The invoking environment delivers the same batch again: a fresh
\* invocation of lambda_handler over the storage the last one left.
Redeliver ==
    /\ pc \in {"returned", "raised"}
    /\ run < MaxRuns
    /\ run' = run + 1
    /\ prev' = [pc |-> pc, storage |-> storage]
    /\ pc' = "loop"
    /\ i' = 1
    /\ p' = 1
    /\ original_image' = NoImage
    /\ resized_image' = NoImage
    /\ file_name' = <<>>
    /\ gets' = <<>>
    /\ puts' = <<>>
    /\ response' = NoResponse
    /\ error' = NoError
    /\ UNCHANGED <<event, storage>>
    /\ UNCHANGED resizeVars
    /\ UNCHANGED crudVars

Next ==
    \/ SkipRecord
    \/ BeginRecord
    \/ GetObjectOk
    \/ GetObjectFail
    \/ OpenImage
    \/ OpenImageFail
    \/ ResizeAndSave
    \/ ResizeFail
    \/ PutObjectOk
    \/ PutObjectFail
    \/ EndRecord
    \/ Return
    \/ Redeliver

Spec == Init /\ [][Next]_vars

(***************************************************************************)
(* resize_image alone, over every image size and max_width of the bounds.  *)
(***************************************************************************)
\* <<width, height, max_width>>: every size of the bounds, and the sizes
\* of the stored images with the max_width of each profile.
ResizeInputs ==
    ((1..MaxOrigWidth) \X (1..MaxOrigHeight) \X (1..MaxMaxWidth))
        \cup { <<o.width, o.height, SIZES[q].max_width>> :
                   o \in {InitialStorage[l] : l \in DOMAIN InitialStorage}
                            \ {Corrupt},
                   q \in 1..Len(SIZES) }
        \cup { <<440, 22, SIZES[q].max_width>> : q \in 1..Len(SIZES) }

InitResize ==
    /\ event = <<>>
    /\ storage = InitialStorage
    /\ pc = "resize_image"
    /\ i = 1
    /\ p = 1
    /\ original_image = NoImage
    /\ resized_image = NoImage
    /\ file_name = <<>>
    /\ gets = <<>>
    /\ puts = <<>>
    /\ response = NoResponse
    /\ run = 1
    /\ prev = NoPrev
    /\ error = NoError
    /\ \E t \in ResizeInputs :
           /\ arg_image = [width |-> t[1], height |-> t[2]]
           /\ arg_max_width = t[3]
    /\ result = NoResult
    /\ CrudAtRest

CallResize ==
    /\ pc = "resize_image"
    /\ result' = resize_image(arg_image, arg_max_width)
    /\ pc' = "resized"
    /\ UNCHANGED <<event, storage, i, p, original_image, resized_image,
                   file_name, gets, puts, response, run, prev, error, arg_image,
                   arg_max_width>>
    /\ UNCHANGED crudVars

NextResize == CallResize

SpecResize == InitResize /\ [][NextResize]_vars

(***************************************************************************)
(* Both together: the invocations of lambda_handler and the calls of       *)
(* resize_image alone.                                                     *)
(***************************************************************************)
InitAll == Init \/ InitResize

NextAll == Next \/ NextResize

SpecAll == InitAll /\ [][NextAll]_vars

(***************************************************************************)
(* The task handler of projeto_crud_serverless (task_crud_handler.py; the  *)
(* same logic is in task_crud_handler_xray.py).  The table has the key     *)
(* (user_id, created_at) with user_id always 'user001'.  Invocations run   *)
(* concurrently; each access to the table is one step.                     *)
(***************************************************************************)
Whitespace == {" ", "\t", "\n", "\r"}

\* str.strip(): leading and trailing whitespace removed.
strip(d) ==
    LET ink == {k \in 1..Len(d) : d[k] \notin Whitespace}
    IN  IF ink = {} THEN <<>>
        ELSE SubSeq(d, CHOOSE k \in ink : \A j \in ink : k <= j,
                       CHOOSE k \in ink : \A j \in ink : j <= k)

Str(d) == [valid |-> TRUE, has_description |-> TRUE,
           description_is_str |-> TRUE, description |-> d,
           has_done |-> FALSE, done |-> FALSE]

WithDone(b, v) == [b EXCEPT !.has_done = TRUE, !.done = v]

\* The request bodies of the model: not JSON; no description; a
\* description that is a number; blank; "a"; " b " (to be stripped); done
\* true or false alone; " b " with done true.
Bodies ==
    LET nodesc == [NoBody EXCEPT !.valid = TRUE]
    IN  {NoBody, nodesc,
         [NoBody EXCEPT !.valid = TRUE, !.has_description = TRUE],
         Str(<<" ">>), Str(<<"a">>), Str(<<" ", "b", " ">>),
         WithDone(nodesc, TRUE), WithDone(nodesc, FALSE),
         WithDone(Str(<<" ", "b", " ">>), TRUE)}

\* create_task without the strip of the check: only an empty description
\* is refused.
missing_description_nostrip(body) ==
    ~body.has_description \/ body.description = <<>>

\* 59: 'description' not in body or not body['description'].strip()
missing_description(body) ==
    ~body.has_description \/ strip(body.description) = <<>>

\* 210-224: the first item of the user's partition whose uuid is task_id,
\* in sort key order; None when there is none.
find_task_by_id(task_id) ==
    LET keys == {k \in DOMAIN table : table[k].uuid = task_id}
    IN  IF keys = {} THEN NoItem
        ELSE table[CHOOSE k \in keys : \A j \in keys : k <= j]

\* table.put_item(Item=item): the item of the same key is replaced.
put_item(item) ==
    [k \in DOMAIN table \cup {item.created_at} |->
        IF k = item.created_at THEN item ELSE table[k]]

\* table.delete_item(Key=...): no item of that key is left.
delete_item(created_at) ==
    [k \in DOMAIN table \ {created_at} |-> table[k]]

\* The messages of error_response (56, 60, 152, 186, 44, 86, 173, 208),
\* without the accents and the quoted values.
JsonInvalido == "JSON invalido no body da requisicao"
DescriptionObrigatorio == "Campo description e obrigatorio"
NaoEncontrada == "Task nao encontrada"
ErroInterno == "Erro interno"
ErroAoSalvar == "Erro ao salvar task"
ErroAoAtualizar == "Erro ao atualizar task"
ErroAoDeletar == "Erro ao deletar task"

\* The invocation of w returns its response; its locals are gone.
Respond(w, code, message) ==
    inv' = [inv EXCEPT ![w] = [Idle EXCEPT !.pc = "done",
                                          !.method = inv[w].method,
                                          !.statusCode = code,
                                          !.error = message]]

\* 11-29: an invocation receives a request and dispatches on the method.
\* A request goes to the first invocation that is not busy.
Receive(w) ==
    /\ inv[w].pc \in {"idle", "done"}
    /\ \A v \in 1..(w - 1) : inv[v].pc \notin {"idle", "done"}
    /\ requests < MaxRequests
    /\ requests' = requests + 1
    /\ \E method \in {"POST", "PUT", "DELETE"} : \E body \in Bodies :
       \E task_id \in 0..issued :
          /\ method = "POST" => task_id = 0
          /\ method = "DELETE" => body = NoBody
          /\ inv' = [inv EXCEPT ![w] =
                        [Idle EXCEPT !.pc = method, !.method = method,
                                     !.task_id = task_id, !.body = body]]
    /\ UNCHANGED <<table, clock, issued, deleted>>
    /\ UNCHANGED thumbVars
    /\ UNCHANGED resizeVars

\* 46-60, 36-44: create_task refuses the request: 400 for a body that is
\* not JSON or has no description or a blank one; a description that is
\* not a str raises in strip() and lambda_handler answers 500.
CreateTaskReject(w) ==
    /\ inv[w].pc = "POST"
    /\ \/ ~inv[w].body.valid /\ Respond(w, 400, JsonInvalido)
       \/ /\ inv[w].body.valid
          /\ inv[w].body.has_description
          /\ ~inv[w].body.description_is_str
          /\ Respond(w, 500, ErroInterno)
       \/ /\ inv[w].body.valid
          /\ inv[w].body.has_description => inv[w].body.description_is_str
          /\ missing_description(inv[w].body)
          /\ Respond(w, 400, DescriptionObrigatorio)
    /\ UNCHANGED <<table, clock, issued, requests, deleted>>
    /\ UNCHANGED thumbVars
    /\ UNCHANGED resizeVars

\* 62-86: create_task builds the item and puts it: 201, or 500 when
\* put_item raises.
CreateTask(w) ==
    /\ inv[w].pc = "POST"
    /\ inv[w].body.valid
    /\ inv[w].body.has_description => inv[w].body.description_is_str
    /\ ~missing_description(inv[w].body)
    /\ issued' = issued + 1
    /\ LET item == [user_id |-> "user001", created_at |-> clock,
                    uuid |-> issued + 1,
                    description |-> strip(inv[w].body.description),
                    done |-> inv[w].body.has_done /\ inv[w].body.done]
       IN  \/ table' = put_item(item) /\ Respond(w, 201, "")
           \/ table' = table /\ Respond(w, 500, ErroAoSalvar)
    /\ UNCHANGED <<clock, requests, deleted>>
    /\ UNCHANGED thumbVars
    /\ UNCHANGED resizeVars

\* 136-159: update_task parses the body, finds the task and applies the
\* provided fields to its copy: 400 for a body that is not JSON, 404 when
\* the task is not found (or the query raises), 500 when the description
\* is not a str.
UpdateFind(w) ==
    /\ inv[w].pc = "PUT"
    /\ IF ~inv[w].body.valid THEN Respond(w, 400, JsonInvalido)
       ELSE \E item \in {find_task_by_id(inv[w].task_id), NoItem} :
          IF item = NoItem THEN Respond(w, 404, NaoEncontrada)
          ELSE IF inv[w].body.has_description
                    /\ ~inv[w].body.description_is_str
          THEN Respond(w, 500, ErroInterno)
          ELSE inv' = [inv EXCEPT
                  ![w].pc = "put_item",
                  ![w].found = item,
                  ![w].current_item =
                      [item EXCEPT
                          !.description =
                              IF inv[w].body.has_description
                                   /\ strip(inv[w].body.description) # <<>>
                              THEN strip(inv[w].body.description)
                              ELSE item.description,
                          !.done = IF inv[w].body.has_done
                                   THEN inv[w].body.done ELSE item.done]]
    /\ UNCHANGED <<table, clock, issued, requests, deleted>>
    /\ UNCHANGED thumbVars
    /\ UNCHANGED resizeVars

\* 161-173: update_task puts the whole item back: 200, or 500 when
\* put_item raises.
UpdatePut(w) ==
    /\ inv[w].pc = "put_item"
    /\ \/ table' = put_item(inv[w].current_item) /\ Respond(w, 200, "")
       \/ table' = table /\ Respond(w, 500, ErroAoAtualizar)
    /\ UNCHANGED <<clock, issued, requests, deleted>>
    /\ UNCHANGED thumbVars
    /\ UNCHANGED resizeVars

\* 175-186: delete_task finds the task: 404 when it is not found.
DeleteFind(w) ==
    /\ inv[w].pc = "DELETE"
    /\ \E item \in {find_task_by_id(inv[w].task_id), NoItem} :
          IF item = NoItem THEN Respond(w, 404, NaoEncontrada)
          ELSE inv' = [inv EXCEPT ![w].pc = "delete_item",
                                  ![w].found = item,
                                  ![w].current_item = item]
    /\ UNCHANGED <<table, clock, issued, requests, deleted>>
    /\ UNCHANGED thumbVars
    /\ UNCHANGED resizeVars

\* 188-208: delete_task deletes by the key of the item it found: 200, or
\* 500 when delete_item raises.
DeleteItem(w) ==
    /\ inv[w].pc = "delete_item"
    /\ \/ /\ table' = delete_item(inv[w].current_item.created_at)
          /\ deleted' = deleted \cup {inv[w].current_item.uuid}
          /\ Respond(w, 200, "")
       \/ /\ table' = table
          /\ deleted' = deleted
          /\ Respond(w, 500, ErroAoDeletar)
    /\ UNCHANGED <<clock, issued, requests>>
    /\ UNCHANGED thumbVars
    /\ UNCHANGED resizeVars

\* Time passes between two readings of datetime.now().
Tick ==
    /\ clock < MaxClock
    /\ clock' = clock + 1
    /\ UNCHANGED <<table, issued, requests, inv, deleted>>
    /\ UNCHANGED thumbVars
    /\ UNCHANGED resizeVars

InitCrud ==
    /\ event = <<>>
    /\ storage = InitialStorage
    /\ pc = "tasks"
    /\ i = 1
    /\ p = 1
    /\ original_image = NoImage
    /\ resized_image = NoImage
    /\ file_name = <<>>
    /\ gets = <<>>
    /\ puts = <<>>
    /\ response = NoResponse
    /\ run = 1
    /\ prev = NoPrev
    /\ error = NoError
    /\ arg_image = NoImage
    /\ arg_max_width = 0
    /\ result = NoResult
    /\ CrudAtRest

NextCrud ==
    \/ \E w \in Workers : Receive(w)
    \/ \E w \in Workers : CreateTaskReject(w)
    \/ \E w \in Workers : CreateTask(w)
    \/ \E w \in Workers : UpdateFind(w)
    \/ \E w \in Workers : UpdatePut(w)
    \/ \E w \in Workers : DeleteFind(w)
    \/ \E w \in Workers : DeleteItem(w)
    \/ Tick

SpecCrud == InitCrud /\ [][NextCrud]_vars

(***************************************************************************)
(* Properties.                                                             *)
(***************************************************************************)
DecodedKey(k) == unquote_plus(event[k].key)

Eligible(k) == startswith(DecodedKey(k), OriginalPrefix)

Stored(bucket, key, w, h) ==
    /\ Loc(bucket, key) \in DOMAIN storage
    /\ storage[Loc(bucket, key)] = Img(w, h)

\* C1: no upscaling.  resize_image returns an image that is not wider than
\* max_width unchanged, every variant lambda_handler stores for a source
\* not wider than the profile has the size of the source, and the variants
\* of the 100x50 original/tiny.jpg are 100x50 under both profiles.
C1_NoUpscaling ==
    /\ (pc = "resized" /\ arg_image.width <= arg_max_width)
          => result = [ok |-> TRUE, width |-> arg_image.width,
                       height |-> arg_image.height]
    /\ \A k \in 1..Len(puts) : \A q \in 1..Len(SIZES) :
          (puts[k].size_name = SIZES[q].size_name
              /\ puts[k].src_width <= SIZES[q].max_width)
          => (puts[k].width = puts[k].src_width
              /\ puts[k].height = puts[k].src_height)
    /\ \A q \in 1..Len(SIZES) :
          LET l == Loc("photos", SIZES[q].size_name \o <<"/">> \o TinyJpg)
          IN  l \in DOMAIN storage => storage[l] = Img(100, 50)

C1_Witness ==
    /\ pc = "returned"
    /\ Stored("photos", small \o <<"/">> \o TinyJpg, 100, 50)
    /\ Stored("photos", medium \o <<"/">> \o TinyJpg, 100, 50)

\* C2: downscaling.  For an image wider than max_width, resize_image
\* returns width max_width and height floor(height * max_width / width).
C2_DownscaleFloor ==
    (pc = "resized" /\ arg_image.width > arg_max_width)
        => (result.width = arg_max_width
            /\ result.height
                  = (arg_image.height * arg_max_width) \div arg_image.width)

\* C3: prefix filtering.  A record whose decoded key is not under
\* original/ causes no get, no put and no error, and is not counted in
\* processed_files.
C3_PrefixFiltering ==
    /\ \A k \in 1..Len(event) :
          ~startswith(DecodedKey(k), OriginalPrefix)
          => (/\ \A g \in 1..Len(gets) : gets[g].i # k
              /\ \A g \in 1..Len(puts) : puts[g].i # k
              /\ error.i # k)
    /\ (pc = "returned"
          => response.processed_files
               = Cardinality({k \in 1..Len(event) :
                                 startswith(DecodedKey(k), OriginalPrefix)}))

\* IsDerivedKey(key, size_name, src): key is size_name, "/", and the text
\* after the last "/" of src.
IsDerivedKey(key, size_name, src) ==
    LET n == Len(key) - Len(size_name) - 1
    IN  /\ n >= 0
        /\ n < Len(src)
        /\ src[Len(src) - n] = "/"
        /\ \A k \in (Len(src) - n + 1)..Len(src) : src[k] # "/"
        /\ key = size_name \o <<"/">> \o SubSeq(src, Len(src) - n + 1, Len(src))

\* C4: destination key.  Every put of lambda_handler goes to the bucket of
\* its record, at the key made of the profile name, "/" and the text after
\* the last "/" of the decoded source key; storage holds nothing else new.
C4_DestinationKey ==
    /\ \A k \in 1..Len(puts) :
          /\ puts[k].bucket = event[puts[k].i].bucket
          /\ \E q \in 1..Len(SIZES) : puts[k].size_name = SIZES[q].size_name
          /\ IsDerivedKey(puts[k].key, puts[k].size_name,
                          DecodedKey(puts[k].i))
    /\ \A l \in DOMAIN storage :
          (l \notin DOMAIN InitialStorage \/ storage[l] # InitialStorage[l])
          => \E k \in 1..Len(event), q \in 1..Len(SIZES) :
                /\ Eligible(k)
                /\ l.bucket = event[k].bucket
                /\ IsDerivedKey(l.key, SIZES[q].size_name, DecodedKey(k))

C4_Witness ==
    \E k \in 1..Len(puts) :
        /\ puts[k].ok
        /\ DecodedKey(puts[k].i) = OriginalPrefix \o SubDir \o PhotoJpg
        /\ puts[k].key = medium \o <<"/">> \o PhotoJpg
        /\ Loc("photos", puts[k].key) \in DOMAIN storage

FailedGets == {g \in 1..Len(gets) : ~gets[g].ok}

FailedPuts == {g \in 1..Len(puts) : ~puts[g].ok}

\* C6: the 200 response is returned only on full-batch success.  When
\* lambda_handler has returned, no call failed and every eligible record
\* has one stored variant per profile; when a get, a decode, a resize or a
\* put failed, the invocation has raised and there is no response.
C6_ReturnOnlyOnSuccess ==
    /\ (pc = "returned"
          => /\ response.statusCode = 200
             /\ error = NoError
             /\ FailedGets = {}
             /\ FailedPuts = {}
             /\ \A k \in 1..Len(event) : Eligible(k) =>
                   \A q \in 1..Len(SIZES) : \E g \in 1..Len(puts) :
                       /\ puts[g].i = k
                       /\ puts[g].size_name = SIZES[q].size_name
                       /\ puts[g].ok
                       /\ Loc(puts[g].bucket, puts[g].key) \in DOMAIN storage)
    /\ ((error # NoError \/ FailedGets # {} \/ FailedPuts # {})
          => (pc = "raised" /\ response = NoResponse))
    /\ (response.statusCode = 200 => pc = "returned")

C6_Witness ==
    /\ pc = "returned"
    /\ Len(event) = 2
    /\ Eligible(1)
    /\ Eligible(2)
    /\ Len(puts) = 2 * Len(SIZES)

\* The last successful put at the location of put g.
LastPutAt(g) ==
    CHOOSE h \in 1..Len(puts) :
        /\ puts[h].ok
        /\ puts[h].bucket = puts[g].bucket
        /\ puts[h].key = puts[g].key
        /\ \A j \in 1..Len(puts) :
              (puts[j].ok /\ puts[j].bucket = puts[g].bucket
                  /\ puts[j].key = puts[g].key) => j <= h

\* C7: abort on the first error.  When the processing of record k failed,
\* the invocation has raised at record k, the failed call is the last call
\* made, no record after k was fetched or written, and every variant
\* stored before the failure is still in storage.
C7_AbortOnFirstError ==
    LET failedAt == {gets[g].i : g \in FailedGets}
                        \cup {puts[g].i : g \in FailedPuts}
                        \cup (IF error # NoError THEN {error.i} ELSE {})
    IN  \A k \in failedAt :
            /\ pc = "raised"
            /\ i = k
            /\ error.i = k
            /\ \A g \in 1..Len(gets) : gets[g].i <= k
            /\ \A g \in 1..Len(puts) : puts[g].i <= k
            /\ \A g \in FailedGets :
                  g = Len(gets) /\ \A h \in 1..Len(puts) : puts[h].i < k
            /\ \A g \in FailedPuts : g = Len(puts)
            /\ \A g \in 1..Len(puts) : puts[g].ok =>
                  Stored(puts[g].bucket, puts[g].key,
                         puts[LastPutAt(g)].width, puts[LastPutAt(g)].height)

C7_Witness ==
    /\ pc = "raised"
    /\ error.i = 2
    /\ Len(event) = 2
    /\ \E g \in 1..Len(puts) : puts[g].i = 1 /\ puts[g].ok
    /\ \E g \in 1..Len(puts) : puts[g].i = 2 /\ puts[g].ok

\* C8: idempotence by overwrite.  When the same batch is delivered again
\* after a successful invocation and the second invocation succeeds too,
\* storage is what the first invocation left: the same keys, and the same
\* size at each key.
C8_IdempotentOverwrite ==
    (pc = "returned" /\ run >= 2 /\ prev.pc = "returned")
        => storage = prev.storage

C8_Witness ==
    /\ pc = "returned"
    /\ run = 2
    /\ prev.pc = "returned"
    /\ Len(puts) = 2 * Len(SIZES)
    /\ storage # InitialStorage

\* C9: on a successful invocation processed_files is the number of records
\* received, skipped records included.
C9_CountIsBatchLength ==
    pc = "returned" => response.processed_files = Len(event)

C9_Witness ==
    /\ pc = "returned"
    /\ Len(event) = 2
    /\ ~Eligible(1)
    /\ Eligible(2)
    /\ response.processed_files = 2

\* C10: the records of a batch share no storage key.  Two puts made for
\* records with distinct decoded source keys go to distinct locations.
C10_DisjointWrites ==
    \A a, b \in 1..Len(puts) :
        DecodedKey(puts[a].i) # DecodedKey(puts[b].i)
            => Loc(puts[a].bucket, puts[a].key)
                   # Loc(puts[b].bucket, puts[b].key)

\* C11: every variant lambda_handler puts under a profile is at most
\* max_width wide and keeps the aspect ratio of its source within one
\* pixel: |height - src_height * width / src_width| < 1.
C11_WidthAndAspect ==
    \A g \in 1..Len(puts) : \A q \in 1..Len(SIZES) :
        puts[g].size_name = SIZES[q].size_name
        => /\ puts[g].width <= SIZES[q].max_width
           /\ puts[g].height * puts[g].src_width
                 - puts[g].src_height * puts[g].width < puts[g].src_width
           /\ puts[g].src_height * puts[g].width
                 - puts[g].height * puts[g].src_width < puts[g].src_width

GetsFor(k) == {g \in 1..Len(gets) : gets[g].i = k}

PutsFor(k) == {g \in 1..Len(puts) : puts[g].i = k}

\* Record k has passed line 53 in this invocation.
Reached(k) == k < i \/ (k = i /\ pc \in {"open", "resize", "put", "raised"})

C17_SourcesUntouched ==
    /\ \A g \in 1..Len(puts) :
          /\ \E q \in 1..Len(SIZES) :
                startswith(puts[g].key, SIZES[q].size_name \o <<"/">>)
          /\ ~startswith(puts[g].key, OriginalPrefix)
          /\ ~startswith(unquote_plus(puts[g].key), OriginalPrefix)
          /\ \A k \in 1..Len(event) :
                (GetsFor(k) # {} \/ PutsFor(k) # {})
                => ~(event[k].bucket = puts[g].bucket
                        /\ DecodedKey(k) = puts[g].key)
    /\ \A l \in DOMAIN storage :
          startswith(l.key, OriginalPrefix)
          => l \in DOMAIN InitialStorage /\ storage[l] = InitialStorage[l]
    /\ \A l \in DOMAIN InitialStorage : l \in DOMAIN storage

C17_Witness ==
    /\ pc = "returned"
    /\ Len(event) = 2
    /\ event[1] = Loc("photos", OriginalPrefix \o PhotoJpg)
    /\ event[2] = Loc("photos", small \o <<"/">> \o PhotoJpg)
    /\ \E g \in PutsFor(1) : puts[g].ok /\ puts[g].key = event[2].key
    /\ GetsFor(2) = {}

\* C18: for positive width, height and max_width the size resize_image
\* computes has both sides at least 1, and the call does not fail.
C18_PositiveSides ==
    pc = "resized"
        => (result.ok /\ result.width >= 1 /\ result.height >= 1)

\* The state of record k in the machine received -> skipped, or received
\* -> fetched -> decoded -> rendering/stored per profile -> done, or failed,
\* read off the position of lambda_handler.
Status(k) ==
    IF k < i THEN (IF Eligible(k) THEN "done" ELSE "skipped")
    ELSE IF k > i THEN "received"
    ELSE IF pc = "raised" THEN "failed"
    ELSE IF pc = "open" THEN "fetched"
    ELSE IF pc = "resize" THEN (IF p = 1 THEN "decoded" ELSE "stored")
    ELSE IF pc = "put" THEN "rendering"
    ELSE "received"

\* The moves of the machine; failed is entered from the fetch step (out of
\* received), the decode step (out of fetched) or a store step (out of
\* rendering).
Moves ==
    {<<"received", "skipped">>, <<"received", "fetched">>,
     <<"fetched", "decoded">>, <<"decoded", "rendering">>,
     <<"rendering", "stored">>, <<"stored", "rendering">>,
     <<"stored", "done">>, <<"received", "failed">>,
     <<"fetched", "failed">>, <<"rendering", "failed">>}

\* Within one invocation a get for a record comes after every put of the
\* records before it, and a put comes after the successful get of its own
\* record and no get of a later one.
BatchOrder ==
    /\ Len(gets') = Len(gets) + 1
          => \A h \in 1..Len(puts) : puts[h].i < gets'[Len(gets')].i
    /\ Len(puts') = Len(puts) + 1
          => /\ \A g \in 1..Len(gets) : gets[g].i <= puts'[Len(puts')].i
             /\ \E g \in 1..Len(gets) :
                   gets[g].i = puts'[Len(puts')].i /\ gets[g].ok
             /\ Status(puts'[Len(puts')].i) = "rendering"

\* C13: in one invocation every record moves only along the machine
\* received -> skipped | fetched -> decoded -> rendering/stored per profile
\* -> done, entering failed only from a fetch, decode or store step; no
\* variant is put before its source is fetched and decoded; records are
\* handled strictly in batch order.
C13_Lifecycle ==
    [][run' = run =>
          /\ \A k \in 1..Len(event) :
                Status(k)' = Status(k) \/ <<Status(k), Status(k)'>> \in Moves
          /\ pc' = "raised" => error'.step \in {"get", "open", "put"}
          /\ BatchOrder]_vars

\* Every order in which the profiles of SIZES can be iterated.
Orders ==
    {o \in [1..Len(SIZES) -> 1..Len(SIZES)] :
         \A a, b \in 1..Len(SIZES) : o[a] = o[b] => a = b}

\* The variants record k has put successfully in this invocation.
Written(k) ==
    {[key |-> puts[g].key, width |-> puts[g].width, height |-> puts[g].height] :
         g \in {h \in PutsFor(k) : puts[h].ok}}

\* C14: profile order is irrelevant.  When lambda_handler is through with
\* the profiles of an eligible record with no storage call failing, the
\* derived keys and sizes it has put are those of rendering the profiles
\* of SIZES in any order.
C14_ProfileOrder ==
    ((pc = "resize" /\ p > Len(SIZES))
        \/ (pc = "raised" /\ error.step = "resize"))
    => \A o \in Orders :
          render_profiles(storage[Loc(bucket_name, object_key)],
                          basename(object_key), o, Len(SIZES)).written
              = Written(i)

\* A JSON body whose description is missing or a blank str.
BlankDescription(body) ==
    /\ body.valid
    /\ \/ ~body.has_description
       \/ /\ body.description_is_str
          /\ \A k \in 1..Len(body.description) :
                body.description[k] \in Whitespace

\* C15: no task with a blank description.  In every state each task of the
\* table has a description that is not empty after stripping; create_task
\* answers a missing or blank description with 400 and leaves the table as
\* it is; update_task keeps the description it found when the body's
\* description is blank, and puts a description that is not blank.
C15_DescriptionNotBlank ==
    /\ [](\A k \in DOMAIN table : strip(table[k].description) # <<>>)
    /\ [][\A w \in Workers :
            /\ (inv[w].pc = "POST" /\ BlankDescription(inv[w].body)
                    /\ inv'[w].pc = "done")
                => (inv'[w].statusCode = 400 /\ table' = table)
            /\ (inv[w].pc = "PUT" /\ inv'[w].pc = "put_item"
                    /\ inv[w].body.has_description
                    /\ BlankDescription(inv[w].body))
                => inv'[w].current_item.description
                       = inv'[w].found.description
            /\ inv'[w].pc = "put_item"
                => strip(inv'[w].current_item.description) # <<>>]_vars

C15_Witness ==
    /\ \E w \in Workers :
          /\ inv[w].method = "POST"
          /\ inv[w].statusCode = 400
          /\ inv[w].error = DescriptionObrigatorio
    /\ \E w \in Workers :
          /\ inv[w].pc = "put_item"
          /\ inv[w].body.has_description
          /\ BlankDescription(inv[w].body)
          /\ inv[w].current_item.description = inv[w].found.description
    /\ DOMAIN table # {}

\* C16: update_task changes only the provided fields.  A PUT that finds
\* its task and returns 200 leaves user_id, created_at and uuid of the
\* task, the fields the body does not provide, every other task and the
\* number of tasks as they are; a PUT or DELETE answered 404 leaves the
\* table as it is.
C16_UpdateFrame ==
    [][\A w \in Workers :
         /\ (inv[w].pc = "put_item" /\ inv'[w].statusCode = 200)
             => LET key == inv[w].current_item.created_at
                IN  /\ DOMAIN table' = DOMAIN table
                    /\ \A k \in DOMAIN table \ {key} : table'[k] = table[k]
                    /\ key \in DOMAIN table
                    /\ table'[key].user_id = table[key].user_id
                    /\ table'[key].created_at = table[key].created_at
                    /\ table'[key].uuid = table[key].uuid
                    /\ (~inv[w].body.has_description
                           \/ BlankDescription(inv[w].body))
                        => table'[key].description = table[key].description
                    /\ ~inv[w].body.has_done
                        => table'[key].done = table[key].done
         /\ (inv[w].pc \in {"PUT", "DELETE"} /\ inv'[w].statusCode = 404)
             => table' = table]_vars

\* C19: a successful delete is durable.  Once delete_task has returned 200
\* for a uuid, no task of the table has that uuid.
C19_DeleteDurable ==
    \A k \in DOMAIN table : table[k].uuid \notin deleted

====
